---- MODULE Spec2Model ----
(***************************************************************************)
(* A model of ModelPoMo (src/model/modelpomo.cpp): the polymorphism-aware  *)
(* substitution model.  State ids are decoded as the code decodes them,    *)
(* the rate matrix and the stationary frequencies are computed entry by    *)
(* entry as the code computes them, and double arithmetic is modelled by   *)
(* exact rationals extended with +inf, -inf and NaN, so that a division by *)
(* zero yields what an IEEE-754 build yields.                              *)
(***************************************************************************)
EXTENDS Integers, Sequences, FiniteSets, TLC

\* ------------------------------------------------------------------------
\* Bounds of the model.
\* ------------------------------------------------------------------------
\* Largest virtual population size the alignment collaborator may declare.
MaxN == 3
\* Largest number of scaleMutationRatesAndUpdateRateMatrix calls between two
\* calibrations of the mutation rates.
MaxScale == 1

\* ------------------------------------------------------------------------
\* double: <<n, d>> with d > 0 is the rational n/d in lowest terms;
\* <<1, 0>> is +inf, <<-1, 0>> is -inf and <<0, 0>> is NaN.
\* ------------------------------------------------------------------------
Abs(x) == IF x < 0 THEN -x ELSE x

Sgn(x) == IF x < 0 THEN -1 ELSE IF x > 0 THEN 1 ELSE 0

RECURSIVE GCD(_, _)
GCD(a, b) == IF b = 0 THEN a ELSE GCD(b, a % b)

\* The double with numerator n and denominator d (d may be 0 or negative).
Norm(n, d) ==
    IF d = 0 THEN <<Sgn(n), 0>>
    ELSE LET g == GCD(Abs(n), Abs(d))
         IN  <<Sgn(d) * (n \div g), Abs(d) \div g>>

Int2D(k) == <<k, 1>>

Zero == <<0, 1>>

One == <<1, 1>>

NaN == <<0, 0>>

IsFinite(x) == x[2] # 0

\* x + y; inf + inf of one sign keeps the sign, of opposite signs is NaN.
Add(x, y) ==
    IF x[2] = 0 /\ y[2] = 0
    THEN IF x[1] = y[1] THEN x ELSE NaN
    ELSE Norm(x[1] * y[2] + y[1] * x[2], x[2] * y[2])

Neg(x) == <<-x[1], x[2]>>

Sub(x, y) == Add(x, Neg(y))

\* x * y; 0 * inf is NaN.
Mul(x, y) == Norm(x[1] * y[1], x[2] * y[2])

\* x / y; finite/0 is +-inf, 0/0 and inf/inf are NaN, finite/inf is 0.
Div(x, y) == Norm(x[1] * y[2] * (IF y[1] < 0 THEN -1 ELSE 1), x[2] * Abs(y[1]))

\* x <= 0.0 as the hardware compares: false for NaN.
IsNonPos(x) == x[1] < 0 \/ (x[1] = 0 /\ x[2] # 0)

\* sum of f[lo] .. f[hi], accumulated upwards from 0.0 as a for loop does.
RECURSIVE SumRange(_, _, _)
SumRange(f, lo, hi) ==
    IF hi < lo THEN Zero ELSE Add(SumRange(f, lo, hi - 1), f[hi])

\* ------------------------------------------------------------------------
\* Model constants.
\* ------------------------------------------------------------------------
n_alleles == 4

n_connections == (n_alleles * (n_alleles - 1)) \div 2

Alleles == 0 .. (n_alleles - 1)

\* Number of PoMo states for virtual population size n.
NumStates(n) == n_alleles + n_connections * (n - 1)

States(n) == 0 .. (NumStates(n) - 1)

\* harmonic(n): the n-th harmonic number.
RECURSIVE harmonic(_)
harmonic(n) == IF n < 1 THEN Zero ELSE Add(harmonic(n - 1), Div(One, Int2D(n)))

\* ------------------------------------------------------------------------
\* State codec.
\* ------------------------------------------------------------------------
\* What decomposeState leaves behind when it raises "State exceeds limit".
StateExceedsLimit == <<-1, -1, -1>>

\* decomposeState with the offset of the A/G band one too large.
decomposeStateN_BandOffset(n, state) ==
    IF state < 4 THEN <<n, state, -1>>
    ELSE IF state < 4 + (n - 1) THEN <<state - 3, 0, 1>>
    ELSE IF state < 4 + 2 * (n - 1) THEN <<state - 3 - n, 0, 2>>
    ELSE IF state < 4 + 3 * (n - 1) THEN <<state - 3 - 2 * (n - 1), 0, 3>>
    ELSE IF state < 4 + 4 * (n - 1) THEN <<state - 3 - 3 * (n - 1), 1, 2>>
    ELSE IF state < 4 + 5 * (n - 1) THEN <<state - 3 - 4 * (n - 1), 1, 3>>
    ELSE IF state < 4 + 6 * (n - 1) THEN <<state - 3 - 5 * (n - 1), 2, 3>>
    ELSE StateExceedsLimit

\* decomposeState(state, i, nt1, nt2) for population size n: <<i, nt1, nt2>>.
decomposeStateN(n, state) ==
    IF state < 4 THEN <<n, state, -1>>
    ELSE IF state < 4 + (n - 1) THEN <<state - 3, 0, 1>>
    ELSE IF state < 4 + 2 * (n - 1) THEN <<state - 3 - (n - 1), 0, 2>>
    ELSE IF state < 4 + 3 * (n - 1) THEN <<state - 3 - 2 * (n - 1), 0, 3>>
    ELSE IF state < 4 + 4 * (n - 1) THEN <<state - 3 - 3 * (n - 1), 1, 2>>
    ELSE IF state < 4 + 5 * (n - 1) THEN <<state - 3 - 4 * (n - 1), 1, 3>>
    ELSE IF state < 4 + 6 * (n - 1) THEN <<state - 3 - 5 * (n - 1), 2, 3>>
    ELSE StateExceedsLimit

isBoundary(state) == state < 4

isPolymorphic(state) == ~isBoundary(state)

\* ------------------------------------------------------------------------
\* Transition rates.
\* ------------------------------------------------------------------------
\* mutCoeff reading the rate of the reverse mutation.
mutCoeff_Transposed(m, nt1, nt2) == m[nt2, nt1]

\* mutCoeff(nt1, nt2) on the calibrated raw mutation rate matrix m.
mutCoeff(m, nt1, nt2) == m[nt1, nt2]

\* The drift rate as it was before the change of 2015: divided by N*N.
DriftRate_NSquared(n, i1) == Div(Int2D(i1 * (n - i1)), Int2D(n * n))

\* The drift rate double(i1*(N-i1)) / double(N).
DriftRate(n, i1) == Div(Int2D(i1 * (n - i1)), Int2D(n))

\* computeProbBoundaryMutation without the test i2 == 1 of its second branch.
computeProbBoundaryMutation_AnyCount(n, m, pi, state1, state2) ==
    LET d1 == decomposeStateN(n, state1)
        d2 == decomposeStateN(n, state2)
        i1 == d1[1]
        nt1 == d1[2]
        nt2 == d1[3]
        i2 == d2[1]
        nt3 == d2[2]
        nt4 == d2[3]
    IN  IF nt1 = nt3 /\ (nt2 = nt4 \/ nt2 = -1 \/ nt4 = -1)
        THEN IF i1 + 1 = i2 THEN DriftRate(n, i1)
             ELSE IF i1 - 1 = i2
                  THEN IF nt2 = -1 THEN Mul(mutCoeff(m, nt1, nt4), pi[nt4])
                       ELSE DriftRate(n, i1)
                  ELSE Zero
        ELSE IF nt1 = nt4 /\ nt2 = -1
             THEN Mul(mutCoeff(m, nt1, nt3), pi[nt3])
        ELSE IF nt2 = nt3 /\ i1 = 1 /\ nt4 = -1
             THEN DriftRate(n, i1)
        ELSE Zero

\* computeProbBoundaryMutation(state1, state2), state1 # state2, for
\* population size n, raw mutation rates m and boundary frequencies pi.
computeProbBoundaryMutation(n, m, pi, state1, state2) ==
    LET d1 == decomposeStateN(n, state1)
        d2 == decomposeStateN(n, state2)
        i1 == d1[1]
        nt1 == d1[2]
        nt2 == d1[3]
        i2 == d2[1]
        nt3 == d2[2]
        nt4 == d2[3]
    IN  IF nt1 = nt3 /\ (nt2 = nt4 \/ nt2 = -1 \/ nt4 = -1)
        THEN IF i1 + 1 = i2 THEN DriftRate(n, i1)
             ELSE IF i1 - 1 = i2
                  THEN IF nt2 = -1 THEN Mul(mutCoeff(m, nt1, nt4), pi[nt4])
                       ELSE DriftRate(n, i1)
                  ELSE Zero
        ELSE IF nt1 = nt4 /\ nt2 = -1 /\ i2 = 1
             THEN Mul(mutCoeff(m, nt1, nt3), pi[nt3])
        ELSE IF nt2 = nt3 /\ i1 = 1 /\ nt4 = -1
             THEN DriftRate(n, i1)
        ELSE Zero

\* ------------------------------------------------------------------------
\* Stationary frequencies.
\* ------------------------------------------------------------------------
\* The pairs (i, j), j < i, in the order the double loops visit them.
LowerPairs == << <<1, 0>>, <<2, 0>>, <<2, 1>>, <<3, 0>>, <<3, 1>>, <<3, 2>> >>

computeSumFreqBoundaryStates(pi) == SumRange(pi, 0, 3)

computeSumFreqPolyStatesNoMut(n, pi) ==
    LET term == [k \in 1 .. Len(LowerPairs) |->
                   Mul(Mul(Int2D(2), pi[LowerPairs[k][1]]), pi[LowerPairs[k][2]])]
    IN  Mul(SumRange(term, 1, Len(LowerPairs)), harmonic(n - 1))

computeSumFreqPolyStates(n, pi, r) ==
    LET term == [k \in 1 .. Len(LowerPairs) |->
                   Mul(Mul(Mul(Int2D(2), pi[LowerPairs[k][1]]), pi[LowerPairs[k][2]]),
                       r[LowerPairs[k][1], LowerPairs[k][2]])]
    IN  Mul(SumRange(term, 1, Len(LowerPairs)), harmonic(n - 1))

computeNormConst(n, pi, r) ==
    Div(One, Add(computeSumFreqBoundaryStates(pi), computeSumFreqPolyStates(n, pi, r)))

\* computeStateFreq with the antisymmetric weight 1/i + 1/(N-i).
computeStateFreq_AsyPlus(n, pi, r, f) ==
    LET norm == computeNormConst(n, pi, r)
    IN  [state \in States(n) |->
           IF isBoundary(state) THEN Mul(pi[state], norm)
           ELSE LET d == decomposeStateN(n, state)
                    i == d[1]
                    a == d[2]
                    b == d[3]
                    sym == Mul(r[a, b], Add(Div(One, Int2D(i)), Div(One, Int2D(n - i))))
                    asy == Mul(Neg(f[a, b]), Add(Div(One, Int2D(i)), Div(One, Int2D(n - i))))
                IN  Mul(Mul(Mul(norm, pi[a]), pi[b]), Add(sym, asy))]

\* computeStateFreq(): the new state_freq for population size n, boundary
\* frequencies pi, symmetric rates r and antisymmetric rates f.
computeStateFreq(n, pi, r, f) ==
    LET norm == computeNormConst(n, pi, r)
    IN  [state \in States(n) |->
           IF isBoundary(state) THEN Mul(pi[state], norm)
           ELSE LET d == decomposeStateN(n, state)
                    i == d[1]
                    a == d[2]
                    b == d[3]
                    sym == Mul(r[a, b], Add(Div(One, Int2D(i)), Div(One, Int2D(n - i))))
                    asy == Mul(Neg(f[a, b]), Sub(Div(One, Int2D(i)), Div(One, Int2D(n - i))))
                IN  Mul(Mul(Mul(norm, pi[a]), pi[b]), Add(sym, asy))]

\* ------------------------------------------------------------------------
\* Rate matrix.
\* ------------------------------------------------------------------------
\* The row sums the first loop of updatePoMoStatesAndRateMatrix accumulates.
RowSums(n, m, pi) ==
    [i \in States(n) |->
       SumRange([j \in States(n) |->
                   IF i = j THEN Zero ELSE computeProbBoundaryMutation(n, m, pi, i, j)],
                0, NumStates(n) - 1)]

\* tot_sum of updatePoMoStatesAndRateMatrix.
TotSum(n, sf, row_sum) ==
    SumRange([i \in States(n) |-> Mul(sf[i], row_sum[i])], 0, NumStates(n) - 1)

\* The rate matrix updatePoMoStatesAndRateMatrix leaves behind, given the
\* state frequencies sf it has just computed.
BuildRateMatrix(n, m, pi, sf) ==
    LET row_sum == RowSums(n, m, pi)
        tot_sum == TotSum(n, sf, row_sum)
    IN  [p \in States(n) \X States(n) |->
           Div(IF p[1] = p[2] THEN Neg(row_sum[p[1]])
               ELSE computeProbBoundaryMutation(n, m, pi, p[1], p[2]),
               tot_sum)]

\* ------------------------------------------------------------------------
\* The mutation model adapter (a 4-state nucleotide model).
\* ------------------------------------------------------------------------
\* Values the adapter's single free parameter takes.
ParamValues == { <<1, 1>>, <<2, 1>> }

\* (i, j) is a transition (A<->G or C<->T).
IsTransition(i, j) == (i + 2) % 4 = j

\* The adapter's rate of change i -> j before the target frequency is
\* applied: a reversible adapter has symmetric rates (transitions at rate
\* param), a non-reversible one has rate 1 above and param + 1 below the
\* diagonal.
AdapterRate(mm, i, j) ==
    IF mm.is_reversible
    THEN IF IsTransition(i, j) THEN mm.param ELSE One
    ELSE IF i < j THEN One ELSE Add(mm.param, One)

\* mutation_model->getQMatrix(m): off-diagonal entries rate * pi[j], each
\* diagonal entry minus the sum of the others of its row.
getQMatrix(mm, pi) ==
    LET off == [p \in Alleles \X Alleles |->
                  IF p[1] = p[2] THEN Zero
                  ELSE Mul(AdapterRate(mm, p[1], p[2]), pi[p[2]])]
    IN  [p \in Alleles \X Alleles |->
           IF p[1] = p[2]
           THEN Neg(SumRange([j \in Alleles |-> off[p[1], j]], 0, n_alleles - 1))
           ELSE off[p]]

\* ------------------------------------------------------------------------
\* Calibration of the mutation rates.
\* ------------------------------------------------------------------------
\* The correction factor of normalizeMutationRates (sampling without
\* replacement).
correction == One

\* m_norm without the term H(N-1) * theta of its denominator.
MNorm_NoHarmonicTerm(n, pi, r0, th) ==
    LET poly == computeSumFreqPolyStates(n, pi, r0)
        theta_bm == Div(poly, harmonic(n - 1))
    IN  Div(th, Mul(theta_bm, correction))

\* m_norm of normalizeMutationRates for the uncalibrated symmetric rates r0.
MNorm(n, pi, r0, th) ==
    LET poly == computeSumFreqPolyStates(n, pi, r0)
        theta_bm == Div(poly, harmonic(n - 1))
    IN  Div(th, Mul(theta_bm, Sub(correction, Mul(harmonic(n - 1), th))))

\* normalizeMutationRates(): the new m, r and f, given the adapter's Q
\* matrix q, the boundary frequencies pi (the adapter's state_freq), the
\* previous f and the target th.
normalizeMutationRates(n, q, pi, rev, f_old, th) ==
    LET m0 == [p \in Alleles \X Alleles |-> Div(q[p], pi[p[2]])]
        r0 == [p \in Alleles \X Alleles |->
                 Div(Add(m0[p[1], p[2]], m0[p[2], p[1]]), Int2D(2))]
        f0 == IF ~rev
              THEN [p \in Alleles \X Alleles |->
                      IF p[1] = p[2] THEN Zero
                      ELSE Div(Sub(m0[p[1], p[2]], m0[p[2], p[1]]), Int2D(2))]
              ELSE f_old
        m_norm == MNorm(n, pi, r0, th)
    IN  [m |-> [p \in Alleles \X Alleles |-> Mul(m0[p], m_norm)],
         r |-> [p \in Alleles \X Alleles |-> Mul(r0[p], m_norm)],
         f |-> [p \in Alleles \X Alleles |-> Mul(f0[p], m_norm)]]

\* ------------------------------------------------------------------------
\* Inputs.
\* ------------------------------------------------------------------------
\* The theta-fixing directives given at construction, as character strings.
PomoThetas == { <<>>, <<"E", "M", "P">>, <<"0", ".", "1">> }

DigitOf == [c \in {"0", "1", "2", "3", "4", "5", "6", "7", "8", "9"} |->
              CASE c = "0" -> 0 [] c = "1" -> 1 [] c = "2" -> 2 [] c = "3" -> 3
                [] c = "4" -> 4 [] c = "5" -> 5 [] c = "6" -> 6 [] c = "7" -> 7
                [] c = "8" -> 8 [] c = "9" -> 9]

RECURSIVE DigitsValue(_)
DigitsValue(s) ==
    IF Len(s) = 0 THEN 0
    ELSE 10 * DigitsValue(SubSeq(s, 1, Len(s) - 1)) + DigitOf[s[Len(s)]]

RECURSIVE Pow10(_)
Pow10(k) == IF k = 0 THEN 1 ELSE 10 * Pow10(k - 1)

\* convert_double(str) for an unsigned decimal literal.
convert_double(s) ==
    LET dots == {k \in 1 .. Len(s) : s[k] = "."}
        dot == IF dots = {} THEN Len(s) + 1 ELSE CHOOSE k \in dots : TRUE
        whole == SubSeq(s, 1, dot - 1)
        frac == SubSeq(s, dot + 1, Len(s))
    IN  Add(Int2D(DigitsValue(whole)), Div(Int2D(DigitsValue(frac)), Int2D(Pow10(Len(frac)))))

\* The boundary frequencies init_boundary_frequencies leaves behind: equal
\* ones (FREQ_EQUAL) or the adapter's user-defined ones (FREQ_USER_DEFINED).
FreqTypes == {"FREQ_EQUAL", "FREQ_USER_DEFINED"}

UserFreqs == [nt \in Alleles |-> Div(Int2D(nt + 1), Int2D(10))]

\* The site counts of the alignment: <<boundary sites, polymorphic sites>>.
SiteCounts == { <<1, 0>>, <<3, 1>>, <<0, 1>> }

\* The matrix exponentiation techniques the run may be configured with.
Techniques ==
    {"MET_EIGEN_DECOMPOSITION", "MET_SCALING_SQUARING", "MET_EIGEN3LIB_DECOMPOSITION",
     "MET_LIE_MARKOV_DECOMPOSITION"}

\* The values of theta the optimiser proposes.
ThetaVars == { <<1, 10>> }

\* What a read past the end of the optimiser's array may find.
BeyondValues == { <<1, 10>>, <<3, 10>> }

\* The value standing for the entry past the end in calls that do not read it.
Unread == NaN

\* The factors the scaling call is given.
Scales == { <<2, 1>> }

\* ------------------------------------------------------------------------
\* State.
\* ------------------------------------------------------------------------
VARIABLES
    aln,                        \* the alignment: virtual_pop_size and site counts
    matrix_exp_technique,       \* phylo_tree->params->matrix_exp_technique
    pc,                         \* "new", "ready", or "error" after outError
    last,                       \* the member function that ran last
    N,
    mutation_model,             \* the adapter: is_reversible and its parameter
    is_reversible,
    freq_boundary_states,       \* aliases mutation_model->state_freq
    theta,
    fixed_theta,
    fixed_theta_emp,
    fixed_theta_usr,
    mutation_rate_matrix,
    mutation_rate_matrix_sym,
    mutation_rate_matrix_asy,
    state_freq,
    rate_matrix,
    eigen,                      \* what the eigen arrays were computed from
    n_scaled,                   \* scaling calls since the last calibration
    ret,                        \* what the last call returned, "void" if nothing
    variables,                  \* the optimiser's parameter array, entries 1 .. ndim
    lower_bound,                \* the optimiser's bound arrays
    upper_bound,
    bound_check,
    partial_lh,                 \* what the tree's partial likelihoods were computed from
    cur_score,                  \* the tree's last log-likelihood
    checkpoint,                 \* the saved "ModelPoMo" structure
    bfs,                        \* the array normalize_boundary_freqs works on
    depth                       \* calls of the boundary-frequency normalisation so far

\* The optimiser's arrays.
optimiser == <<variables, lower_bound, upper_bound, bound_check>>

\* The likelihood state of phylo_tree.
tree == <<partial_lh, cur_score>>

vars == <<aln, matrix_exp_technique, pc, last, N, mutation_model, is_reversible,
          freq_boundary_states, theta, fixed_theta, fixed_theta_emp,
          fixed_theta_usr, mutation_rate_matrix, mutation_rate_matrix_sym,
          mutation_rate_matrix_asy, state_freq, rate_matrix, eigen, n_scaled,
          ret, variables, lower_bound, upper_bound, bound_check, partial_lh,
          cur_score, checkpoint, bfs, depth>>

num_states == NumStates(N)

\* decomposeState on the model's own N.
decomposeState(state) == decomposeStateN(N, state)

\* A 4x4 array after memset(.., 0, ..).
ZeroMatrix == [p \in Alleles \X Alleles |-> Zero]

\* The optimiser, the tree and the checkpoint before the model is used.
Untouched ==
    /\ ret = "void"
    /\ variables = <<>>
    /\ lower_bound = <<>>
    /\ upper_bound = <<>>
    /\ bound_check = <<>>
    /\ partial_lh = [kind |-> "cleared"]
    /\ cur_score = Zero
    /\ checkpoint = <<>>
    /\ bfs = <<>>
    /\ depth = 0

\* The model as ModelPoMo(PhyloTree*) leaves it, before init() runs.  Every
\* technique is tried on the smallest population and eigen-decomposition on
\* the larger ones.
Init ==
    /\ aln \in [virtual_pop_size : 2 .. MaxN, sites : SiteCounts]
    /\ matrix_exp_technique \in Techniques
    /\ aln.virtual_pop_size > 2 => matrix_exp_technique = "MET_EIGEN_DECOMPOSITION"
    /\ pc = "new"
    /\ last = "ModelPoMo"
    /\ N = 0
    /\ mutation_model = [is_reversible |-> TRUE, param |-> Zero]
    /\ is_reversible = TRUE
    /\ freq_boundary_states = <<>>
    /\ theta = Zero
    /\ fixed_theta = FALSE
    /\ fixed_theta_emp = FALSE
    /\ fixed_theta_usr = FALSE
    /\ mutation_rate_matrix = <<>>
    /\ mutation_rate_matrix_sym = <<>>
    /\ mutation_rate_matrix_asy = <<>>
    /\ state_freq = <<>>
    /\ rate_matrix = <<>>
    /\ eigen = [kind |-> "none"]
    /\ n_scaled = 0
    /\ Untouched

\* ------------------------------------------------------------------------
\* Operations.
\* ------------------------------------------------------------------------
\* estimateEmpiricalWattersonTheta() under the sampled regime.
estimateEmpiricalWattersonTheta(a) ==
    LET sum_fix == a.sites[1]
        sum_pol == a.sites[2]
    IN  Div(Int2D(sum_pol), Int2D(sum_fix + sum_pol))

\* decomposeRateMatrix that walks the technique chain for reversible models
\* too.
Decomposed_TechniqueFirst(rev, rm, sf) ==
    IF matrix_exp_technique = "MET_EIGEN_DECOMPOSITION"
    THEN [eigen |-> [kind |-> IF rev THEN "eigensystem_sym" ELSE "eigensystem_nonrev",
                     matrix |-> rm, freq |-> sf],
          pc |-> "ready"]
    ELSE IF matrix_exp_technique = "MET_SCALING_SQUARING"
    THEN [eigen |-> eigen, pc |-> "ready"]
    ELSE [eigen |-> eigen, pc |-> "error"]

\* What decomposeRateMatrix does once the rate matrix rm and the state
\* frequencies sf are rebuilt: the new eigen arrays and program position.
Decomposed(rev, rm, sf) ==
    IF ~rev
    THEN IF matrix_exp_technique = "MET_EIGEN_DECOMPOSITION"
         THEN [eigen |-> [kind |-> "eigensystem_nonrev", matrix |-> rm, freq |-> sf],
               pc |-> "ready"]
         ELSE IF matrix_exp_technique = "MET_SCALING_SQUARING"
         THEN [eigen |-> eigen, pc |-> "ready"]
         ELSE IF matrix_exp_technique = "MET_EIGEN3LIB_DECOMPOSITION"
         THEN [eigen |-> eigen, pc |-> "error"]
         ELSE IF matrix_exp_technique = "MET_LIE_MARKOV_DECOMPOSITION"
         THEN [eigen |-> eigen, pc |-> "error"]
         ELSE [eigen |-> eigen, pc |-> "error"]
    ELSE [eigen |-> [kind |-> "eigensystem_sym", matrix |-> rm, freq |-> sf],
          pc |-> "ready"]

\* init_fixed_parameters that keeps the estimate from the data whatever the
\* directive says.
init_fixed_parameters_KeepEstimate(pomo_theta, th) ==
    [fixed_theta |-> Len(pomo_theta) > 0,
     fixed_theta_emp |-> (Len(pomo_theta) > 0 /\ pomo_theta = <<"E", "M", "P">>),
     fixed_theta_usr |-> (Len(pomo_theta) > 0 /\ pomo_theta # <<"E", "M", "P">>),
     theta |-> th]

\* init_fixed_parameters(model_params, pomo_theta) when theta holds th: the
\* three flags and theta as it leaves them.
init_fixed_parameters(pomo_theta, th) ==
    [fixed_theta |-> Len(pomo_theta) > 0,
     fixed_theta_emp |-> (Len(pomo_theta) > 0 /\ pomo_theta = <<"E", "M", "P">>),
     fixed_theta_usr |-> (Len(pomo_theta) > 0 /\ pomo_theta # <<"E", "M", "P">>),
     theta |-> IF Len(pomo_theta) > 0 /\ pomo_theta # <<"E", "M", "P">>
               THEN convert_double(pomo_theta)
               ELSE th]

\* init(model_name, model_params, freq_type, freq_params, pomo_theta); the
\* model name decides whether the adapter is reversible.
init(model_rev, freq_type, pomo_theta) ==
    /\ pc = "new"
    /\ N' = aln.virtual_pop_size
    /\ mutation_model' = [is_reversible |-> model_rev, param |-> One]
    /\ is_reversible' = model_rev
    /\ freq_boundary_states' =
         IF freq_type = "FREQ_EQUAL"
         THEN [nt \in Alleles |-> Div(One, Int2D(n_alleles))]
         ELSE UserFreqs
    /\ \E fp \in {init_fixed_parameters(pomo_theta, estimateEmpiricalWattersonTheta(aln))} :
         /\ fixed_theta' = fp.fixed_theta
         /\ fixed_theta_emp' = fp.fixed_theta_emp
         /\ fixed_theta_usr' = fp.fixed_theta_usr
         /\ theta' = fp.theta
    /\ n_scaled' = 0
    /\ last' = "init"
    /\ IF ~fixed_theta' /\ IsNonPos(computeSumFreqPolyStatesNoMut(N', freq_boundary_states'))
       THEN /\ pc' = "error"
            /\ mutation_rate_matrix' = ZeroMatrix
            /\ mutation_rate_matrix_sym' = ZeroMatrix
            /\ mutation_rate_matrix_asy' = ZeroMatrix
            /\ UNCHANGED <<state_freq, rate_matrix, eigen>>
       ELSE /\ \E nm \in {normalizeMutationRates(N', getQMatrix(mutation_model', freq_boundary_states'),
                                                freq_boundary_states', is_reversible',
                                                ZeroMatrix, theta')} :
                 /\ mutation_rate_matrix' = nm.m
                 /\ mutation_rate_matrix_sym' = nm.r
                 /\ mutation_rate_matrix_asy' = nm.f
            /\ state_freq' = computeStateFreq(N', freq_boundary_states',
                                              mutation_rate_matrix_sym', mutation_rate_matrix_asy')
            /\ rate_matrix' = BuildRateMatrix(N', mutation_rate_matrix', freq_boundary_states', state_freq')
            /\ \E d \in {Decomposed(is_reversible', rate_matrix', state_freq')} :
                 /\ eigen' = d.eigen
                 /\ pc' = d.pc
    /\ ret' = "void"
    /\ UNCHANGED <<aln, matrix_exp_technique, optimiser, tree, checkpoint, bfs, depth>>

\* scaleMutationRatesAndUpdateRateMatrix(scale).
scaleMutationRatesAndUpdateRateMatrix(scale) ==
    /\ pc = "ready"
    /\ n_scaled < MaxScale
    /\ n_scaled' = n_scaled + 1
    /\ mutation_rate_matrix' = [p \in Alleles \X Alleles |-> Mul(mutation_rate_matrix[p], scale)]
    /\ mutation_rate_matrix_sym' = [p \in Alleles \X Alleles |-> Mul(mutation_rate_matrix_sym[p], scale)]
    /\ mutation_rate_matrix_asy' = [p \in Alleles \X Alleles |-> Mul(mutation_rate_matrix_asy[p], scale)]
    /\ state_freq' = computeStateFreq(N, freq_boundary_states,
                                      mutation_rate_matrix_sym', mutation_rate_matrix_asy')
    /\ rate_matrix' = BuildRateMatrix(N, mutation_rate_matrix', freq_boundary_states, state_freq')
    /\ last' = "scaleMutationRatesAndUpdateRateMatrix"
    /\ ret' = "void"
    /\ UNCHANGED <<aln, matrix_exp_technique, pc, N, mutation_model, is_reversible,
                   freq_boundary_states, theta, fixed_theta, fixed_theta_emp,
                   fixed_theta_usr, eigen, optimiser, tree, checkpoint, bfs, depth>>

\* mutation_model->getNDim(): the adapter has one free parameter.
mutation_model_getNDim == 1

\* getNDim().
getNDim == IF fixed_theta THEN mutation_model_getNDim ELSE mutation_model_getNDim + 1

\* a[i] for an array holding the entries DOMAIN a; a read outside them finds
\* beyond.
ReadAt(a, i, beyond) == IF i \in DOMAIN a THEN a[i] ELSE beyond

\* a after a[i] = v; a write outside DOMAIN a shows as a new entry.
WriteAt(a, i, v) == [k \in DOMAIN a \cup {i} |-> IF k = i THEN v ELSE a[k]]

\* x != y as the hardware compares: true when either is not a number.
NotEqual(x, y) == x = NaN \/ y = NaN \/ x # y

\* The arrays the optimiser hands to the model: the adapter's parameter,
\* then a value for theta when theta is free.
TrialPoints ==
    {x \in [1 .. getNDim -> ParamValues \cup ThetaVars] :
       /\ x[1] \in ParamValues
       /\ getNDim > mutation_model_getNDim => x[getNDim] \in ThetaVars}

\* getVariables that calibrates the rates but leaves state_freq and
\* rate_matrix as they were.
getVariables_NoRebuild(x, beyonds) ==
    /\ pc = "ready"
    /\ mutation_model' = [mutation_model EXCEPT !.param = x[1]]
    /\ theta' = IF ~fixed_theta THEN ReadAt(x, getNDim, Unread) ELSE theta
    /\ \E nm \in {normalizeMutationRates(N, getQMatrix(mutation_model', freq_boundary_states),
                                        freq_boundary_states, is_reversible,
                                        mutation_rate_matrix_asy, theta')} :
         /\ mutation_rate_matrix' = nm.m
         /\ mutation_rate_matrix_sym' = nm.r
         /\ mutation_rate_matrix_asy' = nm.f
    /\ n_scaled' = 0
    /\ \E beyond \in beyonds :
         ret' = (\/ NotEqual(mutation_model.param, x[1])
                 \/ ~fixed_theta /\ NotEqual(theta, ReadAt(x, getNDim + 1, beyond)))
    /\ last' = "getVariables"
    /\ UNCHANGED <<aln, matrix_exp_technique, pc, N, is_reversible, freq_boundary_states,
                   fixed_theta, fixed_theta_emp, fixed_theta_usr, eigen, state_freq,
                   rate_matrix, optimiser, tree, checkpoint, bfs, depth>>

\* getVariables(variables) on the array x, where a read past the end of x
\* may find any of beyonds: the adapter takes its parameter from x and
\* reports whether it changed, theta is compared and read, and the rates,
\* frequencies and rate matrix are rebuilt.
getVariables(x, beyonds) ==
    /\ pc = "ready"
    /\ mutation_model' = [mutation_model EXCEPT !.param = x[1]]
    /\ theta' = IF ~fixed_theta THEN ReadAt(x, getNDim, Unread) ELSE theta
    /\ \E nm \in {normalizeMutationRates(N, getQMatrix(mutation_model', freq_boundary_states),
                                        freq_boundary_states, is_reversible,
                                        mutation_rate_matrix_asy, theta')} :
         /\ mutation_rate_matrix' = nm.m
         /\ mutation_rate_matrix_sym' = nm.r
         /\ mutation_rate_matrix_asy' = nm.f
    /\ state_freq' = computeStateFreq(N, freq_boundary_states,
                                      mutation_rate_matrix_sym', mutation_rate_matrix_asy')
    /\ rate_matrix' = BuildRateMatrix(N, mutation_rate_matrix', freq_boundary_states, state_freq')
    /\ n_scaled' = 0
    /\ \E beyond \in beyonds :
         ret' = (\/ NotEqual(mutation_model.param, x[1])
                 \/ ~fixed_theta /\ NotEqual(theta, ReadAt(x, getNDim + 1, beyond)))
    /\ last' = "getVariables"
    /\ UNCHANGED <<aln, matrix_exp_technique, pc, N, is_reversible, freq_boundary_states,
                   fixed_theta, fixed_theta_emp, fixed_theta_usr, eigen, optimiser, tree,
                   checkpoint, bfs, depth>>

\* decomposeRateMatrix().
decomposeRateMatrix ==
    /\ pc = "ready"
    /\ state_freq' = computeStateFreq(N, freq_boundary_states,
                                      mutation_rate_matrix_sym, mutation_rate_matrix_asy)
    /\ rate_matrix' = BuildRateMatrix(N, mutation_rate_matrix, freq_boundary_states, state_freq')
    /\ \E d \in {Decomposed(is_reversible, rate_matrix', state_freq')} :
         /\ eigen' = d.eigen
         /\ pc' = d.pc
    /\ last' = "decomposeRateMatrix"
    /\ ret' = "void"
    /\ UNCHANGED <<aln, matrix_exp_technique, N, mutation_model, is_reversible,
                   freq_boundary_states, theta, fixed_theta, fixed_theta_emp,
                   fixed_theta_usr, mutation_rate_matrix, mutation_rate_matrix_sym,
                   mutation_rate_matrix_asy, n_scaled, optimiser, tree, checkpoint,
                   bfs, depth>>

Next ==
    \/ \E model_rev \in BOOLEAN, freq_type \in FreqTypes, pomo_theta \in PomoThetas :
         init(model_rev, freq_type, pomo_theta)
    \/ \E scale \in Scales : scaleMutationRatesAndUpdateRateMatrix(scale)
    \/ \E x \in TrialPoints : getVariables(x, BeyondValues)
    \/ decomposeRateMatrix

Spec == Init /\ [][Next]_vars

\* ------------------------------------------------------------------------
\* State codec: properties.
\* ------------------------------------------------------------------------
\* The index of the allele pair (a, b) in the order AC, AG, AT, CG, CT, GT.
PairIndex(a, b) ==
    CASE a = 0 /\ b = 1 -> 0
      [] a = 0 /\ b = 2 -> 1
      [] a = 0 /\ b = 3 -> 2
      [] a = 1 /\ b = 2 -> 3
      [] a = 1 /\ b = 3 -> 4
      [] a = 2 /\ b = 3 -> 5
      [] OTHER -> -1

\* The id of the polymorphic state with i copies of a and N - i copies of b.
ComposeState(i, a, b) == 4 + PairIndex(a, b) * (N - 1) + (i - 1)

\* The triples of the polymorphic states.
PolyTriples == {t \in (1 .. (N - 1)) \X Alleles \X Alleles : t[2] < t[3]}

\* C1: for every state s of [0, 4+6*(N-1)), decomposeState(s) is (N, s, -1)
\* when s < 4 and otherwise a triple (i, a, b) with 1 <= i <= N-1,
\* 0 <= a < b <= 3 and 4 + pair_index(a,b)*(N-1) + (i-1) = s; distinct
\* states have distinct triples and every such triple is the image of a state.
C1_DecomposeBijection ==
    N >= 2 =>
      /\ \A s \in States(N) :
           LET d == decomposeState(s)
           IN  IF s < 4 THEN d = <<N, s, -1>>
               ELSE /\ d \in PolyTriples
                    /\ ComposeState(d[1], d[2], d[3]) = s
      /\ \A s1, s2 \in States(N) : s1 # s2 => decomposeState(s1) # decomposeState(s2)
      /\ \A t \in PolyTriples : \E s \in States(N) : s >= 4 /\ decomposeState(s) = t

\* A model with N = 3 has decoded its last state, 2G1T.
C1_Witness ==
    /\ pc = "ready"
    /\ N = 3
    /\ decomposeState(NumStates(N) - 1) = <<2, 2, 3>>
    /\ decomposeState(3) = <<3, 3, -1>>

\* ------------------------------------------------------------------------
\* Transition rates: properties.
\* ------------------------------------------------------------------------
\* The rate the model holds for state1 -> state2.
Rate(state1, state2) ==
    computeProbBoundaryMutation(N, mutation_rate_matrix, freq_boundary_states, state1, state2)

\* Both states are polymorphic, of one allele pair, with counts one apart.
DriftNeighbours(s1, s2) ==
    LET d1 == decomposeState(s1)
        d2 == decomposeState(s2)
    IN  /\ s1 >= 4
        /\ s2 >= 4
        /\ d1[2] = d2[2]
        /\ d1[3] = d2[3]
        /\ (d1[1] - d2[1] = 1 \/ d2[1] - d1[1] = 1)

\* bs is the boundary state of an allele that has count N-1 in the
\* polymorphic state ps.
BoundaryNeighbours(bs, ps) ==
    LET d == decomposeState(ps)
    IN  /\ bs < 4
        /\ ps >= 4
        /\ \/ d[2] = bs /\ d[1] = N - 1
           \/ d[3] = bs /\ N - d[1] = N - 1

\* C2: for distinct valid states s1, s2 the rate is exactly 0 unless both are
\* polymorphic states of one allele pair with counts one apart, or one is the
\* boundary state of an allele that has count N-1 in the other.
C2_ZeroUnlessNeighbours ==
    pc = "ready" =>
      \A s1, s2 \in States(N) :
        (/\ s1 # s2
         /\ ~DriftNeighbours(s1, s2)
         /\ ~BoundaryNeighbours(s1, s2)
         /\ ~BoundaryNeighbours(s2, s1)) => Rate(s1, s2) = Zero

\* With N = 3 and non-zero mutation rates: boundary to boundary, polymorphic
\* states of different pairs and a boundary state to a count-1 state of its
\* own allele all have rate 0, next to a mutation step that does not.
C2_Witness ==
    /\ pc = "ready"
    /\ N = 3
    /\ Rate(0, 1) = Zero
    /\ Rate(4, 6) = Zero
    /\ Rate(0, 4) = Zero
    /\ Rate(0, 5) # Zero
    /\ IsFinite(Rate(0, 5))

\* C3: out of a polymorphic state (i, a, b) every drift step has rate
\* i*(N-i)/N: to (i+1, a, b) and (i-1, a, b) where that count is in
\* [1, N-1], to the boundary state a when i = N-1 and to the boundary state
\* b when i = 1.
C3_DriftRate ==
    pc = "ready" =>
      \A s1 \in States(N) :
        s1 >= 4 =>
          LET d == decomposeState(s1)
              i == d[1]
              a == d[2]
              b == d[3]
              drift == Norm(i * (N - i), N)
          IN  /\ i + 1 <= N - 1 => Rate(s1, ComposeState(i + 1, a, b)) = drift
              /\ i - 1 >= 1 => Rate(s1, ComposeState(i - 1, a, b)) = drift
              /\ i = N - 1 => Rate(s1, a) = drift
              /\ i = 1 => Rate(s1, b) = drift

\* With N = 3: 1A2C -> 2A1C, 2A1C -> 1A2C, 2A1C -> 3A and 1A2C -> 3C all
\* have rate 2/3.
C3_Witness ==
    /\ pc = "ready"
    /\ N = 3
    /\ Rate(4, 5) = <<2, 3>>
    /\ Rate(5, 4) = <<2, 3>>
    /\ Rate(5, 0) = <<2, 3>>
    /\ Rate(4, 1) = <<2, 3>>

\* The polymorphic state with N-1 copies of x and 1 copy of y.
MutationTarget(x, y) ==
    IF x < y THEN ComposeState(N - 1, x, y) ELSE ComposeState(1, y, x)

\* C4: the rate from the boundary state X into the polymorphic state with
\* N-1 copies of X and 1 copy of Y is mutation_rate_matrix[X][Y] *
\* freq_boundary_states[Y], for X < Y and for X > Y alike.
C4_MutationRate ==
    pc = "ready" =>
      \A x, y \in Alleles :
        x # y => Rate(x, MutationTarget(x, y)) =
                   Mul(mutation_rate_matrix[x, y], freq_boundary_states[y])

\* A non-reversible model whose raw rates C->A and A->C differ from each
\* other and from the symmetrised rate, with both rates out of C and A set.
C4_Witness ==
    /\ pc = "ready"
    /\ ~is_reversible
    /\ IsFinite(mutation_rate_matrix[1, 0])
    /\ mutation_rate_matrix[1, 0] # mutation_rate_matrix[0, 1]
    /\ mutation_rate_matrix[1, 0] # mutation_rate_matrix_sym[1, 0]
    /\ freq_boundary_states[0] # freq_boundary_states[1]
    /\ Rate(1, MutationTarget(1, 0)) = Mul(mutation_rate_matrix[1, 0], freq_boundary_states[0])
    /\ Rate(0, MutationTarget(0, 1)) = Mul(mutation_rate_matrix[0, 1], freq_boundary_states[1])

\* ------------------------------------------------------------------------
\* computeStateFreq on its own: boundary frequencies, symmetric rates r and
\* antisymmetric rates f are drawn freely, then the function is applied.
\* ------------------------------------------------------------------------
\* The sizes and shapes of the rates drawn.
RateSizes == { Zero, <<1, 10>>, <<3, 2>> }

FluxSizes == { Zero, <<1, 20>>, <<-1, 3>> }

\* A symmetric matrix: size, or size * (1 + a + b) when graded.
SymmetricRates(size, graded) ==
    [p \in Alleles \X Alleles |->
       IF p[1] = p[2] THEN Zero
       ELSE IF graded THEN Mul(size, Int2D(1 + p[1] + p[2])) ELSE size]

\* An antisymmetric matrix: size * (b - a).
AntisymmetricRates(size) ==
    [p \in Alleles \X Alleles |-> Mul(size, Int2D(p[2] - p[1]))]

InitFreq ==
    /\ aln \in [virtual_pop_size : 2 .. MaxN, sites : {<<1, 0>>}]
    /\ matrix_exp_technique = "MET_EIGEN_DECOMPOSITION"
    /\ pc = "computeStateFreq"
    /\ last = "ModelPoMo"
    /\ N = aln.virtual_pop_size
    /\ mutation_model = [is_reversible |-> FALSE, param |-> Zero]
    /\ is_reversible = FALSE
    /\ freq_boundary_states \in {[nt \in Alleles |-> Div(One, Int2D(n_alleles))], UserFreqs}
    /\ theta = Zero
    /\ fixed_theta = FALSE
    /\ fixed_theta_emp = FALSE
    /\ fixed_theta_usr = FALSE
    /\ mutation_rate_matrix = ZeroMatrix
    /\ \E size \in RateSizes, graded \in BOOLEAN :
         mutation_rate_matrix_sym = SymmetricRates(size, graded)
    /\ \E size \in FluxSizes : mutation_rate_matrix_asy = AntisymmetricRates(size)
    /\ state_freq = <<>>
    /\ rate_matrix = <<>>
    /\ eigen = [kind |-> "none"]
    /\ n_scaled = 0
    /\ Untouched

\* One call of computeStateFreq().
computeStateFreqCall ==
    /\ pc = "computeStateFreq"
    /\ last = "ModelPoMo"
    /\ state_freq' = computeStateFreq(N, freq_boundary_states,
                                      mutation_rate_matrix_sym, mutation_rate_matrix_asy)
    /\ last' = "computeStateFreq"
    /\ UNCHANGED <<aln, matrix_exp_technique, pc, N, mutation_model, is_reversible,
                   freq_boundary_states, theta, fixed_theta, fixed_theta_emp,
                   fixed_theta_usr, mutation_rate_matrix, mutation_rate_matrix_sym,
                   mutation_rate_matrix_asy, rate_matrix, eigen, n_scaled, ret,
                   optimiser, tree, checkpoint, bfs, depth>>

NextFreq == computeStateFreqCall

SpecFreq == InitFreq /\ [][NextFreq]_vars

\* ------------------------------------------------------------------------
\* Rate matrix and frequencies: properties.
\* ------------------------------------------------------------------------
\* The sum of the entries of row i of rate_matrix other than the diagonal.
OffDiagonalSum(i) ==
    SumRange([j \in States(N) |-> IF i = j THEN Zero ELSE rate_matrix[i, j]],
             0, num_states - 1)

\* The sum of all entries of row i of rate_matrix.
RowSum(i) == SumRange([j \in States(N) |-> rate_matrix[i, j]], 0, num_states - 1)

\* sum_i state_freq[i] * (-rate_matrix[i][i]).
TotalRate ==
    SumRange([i \in States(N) |-> Mul(state_freq[i], Neg(rate_matrix[i, i]))],
             0, num_states - 1)

\* The sum of state_freq over all states.
SumStateFreq == SumRange(state_freq, 0, num_states - 1)

\* H(N-1) * theta.
HTheta == Mul(harmonic(N - 1), theta)

\* x < 0.0 as the hardware compares: false for NaN.
IsNegative(x) == x[1] < 0

\* C5: after updatePoMoStatesAndRateMatrix every row of rate_matrix sums to
\* 0 and its diagonal entry is minus the sum of its off-diagonal entries,
\* also after the division by tot_sum.  Stated for the models whose theta,
\* and so every mutation rate, is 0.
C5_RowsSumToZero ==
    (pc = "ready" /\ theta = Zero) =>
      \A i \in States(N) :
        RowSum(i) = Zero /\ rate_matrix[i, i] = Neg(OffDiagonalSum(i))

\* C6: after updatePoMoStatesAndRateMatrix the frequency-weighted total rate
\* sum_i state_freq[i] * (-rate_matrix[i][i]) is 1, also when theta, and so
\* every mutation rate, is 0.  Stated for the models whose theta is 0.
C6_TotalRateIsOne == (pc = "ready" /\ theta = Zero) => TotalRate = One

PolyMass ==
    Div(computeSumFreqPolyStates(N, freq_boundary_states, mutation_rate_matrix_sym),
        harmonic(N - 1))

C9_NoNegativeEntry ==
    pc = "ready" =>
      /\ \A i, j \in States(N) : i # j => ~IsNegative(rate_matrix[i, j])
      /\ \A i \in States(N) : ~IsNegative(state_freq[i])

\* An eigendecomposition is what decomposeRateMatrix leaves behind.
UsesEigen == is_reversible \/ matrix_exp_technique = "MET_EIGEN_DECOMPOSITION"

\* The rates, frequencies and rate matrix are those of the adapter's
\* parameters and theta.
RebuiltFromParameters ==
    LET nm == normalizeMutationRates(N, getQMatrix(mutation_model, freq_boundary_states),
                                     freq_boundary_states, is_reversible,
                                     mutation_rate_matrix_asy, theta)
        sf == computeStateFreq(N, freq_boundary_states, nm.r, mutation_rate_matrix_asy)
    IN  /\ mutation_rate_matrix = nm.m
        /\ mutation_rate_matrix_sym = nm.r
        /\ ~is_reversible => mutation_rate_matrix_asy = nm.f
        /\ state_freq = sf
        /\ rate_matrix = BuildRateMatrix(N, nm.m, freq_boundary_states, sf)

\* The eigen arrays were computed from the current rate matrix.
EigenIsCurrent ==
    /\ eigen.kind # "none"
    /\ eigen.matrix = rate_matrix
    /\ eigen.freq = state_freq

\* C10 as stated: after any getVariables call the eigendecomposition is that
\* of the rate matrix of the newly applied parameters.  Stated for the models
\* that use an eigendecomposition and whose theta was 1/10 from the start.
C10_EigenCurrentAfterGetVariables ==
    (pc = "ready" /\ last = "getVariables" /\ UsesEigen /\ fixed_theta_usr) => EigenIsCurrent

\* C10 amended: every getVariables call calibrates the rates and rebuilds
\* state_freq and rate_matrix from the applied parameters before it returns;
\* the eigendecomposition is that of the current rate matrix after a
\* decomposeRateMatrix call that runs an eigendecomposition.
C10_RebuildThenDecompose ==
    /\ (pc = "ready" /\ last = "getVariables") => RebuiltFromParameters
    /\ (pc = "ready" /\ last = "decomposeRateMatrix" /\ UsesEigen) => EigenIsCurrent

\* getVariables has changed the adapter's parameter of a reversible model:
\* the rate matrix is rebuilt and the eigen arrays are those of the old one.
C10_Witness ==
    /\ pc = "ready"
    /\ last = "getVariables"
    /\ is_reversible
    /\ mutation_model.param = Int2D(2)
    /\ RebuiltFromParameters
    /\ eigen.kind = "eigensystem_sym"
    /\ eigen.matrix # rate_matrix
    /\ \A i, j \in States(N) : IsFinite(rate_matrix[i, j]) /\ IsFinite(eigen.matrix[i, j])

\* ------------------------------------------------------------------------
\* Initialisation without polymorphism data.
\* ------------------------------------------------------------------------
\* C11: when the alignment has no polymorphic site (the empirical Watterson
\* theta is 0) and theta is not fixed, init ends in the fatal error of
\* setInitialMutCoeff and the rate matrix is never built.
C11_NoPolymorphismIsFatal ==
    (last = "init" /\ aln.sites[2] = 0 /\ ~fixed_theta) =>
      (pc = "error" /\ rate_matrix = <<>>)

\* ------------------------------------------------------------------------
\* Decomposition dispatch.
\* ------------------------------------------------------------------------
\* The rate matrix and frequencies decomposeRateMatrix rebuilds from the
\* calibrated rates in the next state.
RebuiltNext ==
    /\ state_freq' = computeStateFreq(N', freq_boundary_states',
                                      mutation_rate_matrix_sym', mutation_rate_matrix_asy')
    /\ rate_matrix' = BuildRateMatrix(N', mutation_rate_matrix', freq_boundary_states',
                                      state_freq')

\* The eigen arrays of the next state were computed, in the way named kind,
\* from the rate matrix and frequencies of the next state.
EigenNext(kind) ==
    eigen' = [kind |-> kind, matrix |-> rate_matrix', freq |-> state_freq']

\* C12: every decomposeRateMatrix run (on its own or at the end of init)
\* first rebuilds the rate matrix; then a reversible model gets the symmetric
\* eigendecomposition and no error whatever the technique; a non-reversible
\* model gets the general eigendecomposition under eigen-decomposition,
\* nothing more under scaling-and-squaring, and a fatal error under every
\* other technique.
C12_DecomposeDispatch ==
    [][ (last' \in {"init", "decomposeRateMatrix"} /\ rate_matrix' # <<>>) =>
          /\ RebuiltNext
          /\ is_reversible' => (pc' = "ready" /\ EigenNext("eigensystem_sym"))
          /\ (~is_reversible' /\ matrix_exp_technique = "MET_EIGEN_DECOMPOSITION") =>
                (pc' = "ready" /\ EigenNext("eigensystem_nonrev"))
          /\ (~is_reversible' /\ matrix_exp_technique = "MET_SCALING_SQUARING") =>
                (pc' = "ready" /\ eigen' = eigen)
          /\ (~is_reversible'
               /\ matrix_exp_technique \notin {"MET_EIGEN_DECOMPOSITION", "MET_SCALING_SQUARING"}) =>
                pc' = "error" ]_vars

\* decomposeRateMatrix has run on a reversible model configured with a
\* technique that is fatal for non-reversible models, after getVariables
\* changed the adapter's parameter: no error, and the eigen arrays are those
\* of the rebuilt matrix.
C12_Witness ==
    /\ last = "decomposeRateMatrix"
    /\ is_reversible
    /\ matrix_exp_technique = "MET_LIE_MARKOV_DECOMPOSITION"
    /\ mutation_model.param = Int2D(2)
    /\ pc = "ready"
    /\ eigen = [kind |-> "eigensystem_sym", matrix |-> rate_matrix, freq |-> state_freq]

\* ------------------------------------------------------------------------
\* Normalisation of the empirical boundary frequencies.
\* ------------------------------------------------------------------------
\* normalize_boundary_freqs and check_boundary_freqs call each other until no
\* entry is clamped.  Whether that ever happens is decided by the rounding of
\* the additions and divisions, so this part computes in binary floating
\* point with MantissaBits bits of precision instead of exact fractions.
MantissaBits == 6

\* The nesting depth up to which the calls are followed.
MaxDepth == 12

RECURSIVE Pow2(_)
Pow2(k) == IF k = 0 THEN 1 ELSE 2 * Pow2(k - 1)

\* The exponent e of a positive fraction x: 2^e <= x < 2^(e+1).
RECURSIVE Exponent(_)
Exponent(x) ==
    IF x[1] < x[2] THEN Exponent(<<2 * x[1], x[2]>>) - 1
    ELSE IF x[1] >= 2 * x[2] THEN Exponent(<<x[1], 2 * x[2]>>) + 1
    ELSE 0

\* x rounded to the nearest floating-point number, ties to even.
Round(x) ==
    IF ~IsFinite(x) \/ x = Zero THEN x
    ELSE LET a == <<Abs(x[1]), x[2]>>
             shift == MantissaBits - 1 - Exponent(a)
             num == IF shift >= 0 THEN a[1] * Pow2(shift) ELSE a[1]
             den == IF shift >= 0 THEN a[2] ELSE a[2] * Pow2(-shift)
             fl == num \div den
             rem == num % den
             mant == IF 2 * rem > den \/ (2 * rem = den /\ fl % 2 = 1) THEN fl + 1 ELSE fl
         IN  IF shift >= 0 THEN Norm(Sgn(x[1]) * mant, Pow2(shift))
             ELSE Norm(Sgn(x[1]) * mant * Pow2(-shift), 1)

\* x < y as the hardware compares: false when either is not a number.
Less(x, y) == x[1] * y[2] < y[1] * x[2]

\* The band check_boundary_freqs clamps to.
POMO_MIN_BOUNDARY_FREQ == Round(<<1, 20>>)

POMO_MAX_BOUNDARY_FREQ == Round(<<19, 20>>)

\* The allele counts estimateEmpiricalBoundaryStateFreqs may have summed
\* for one nucleotide.
BfsCounts == {0, 1, 3}

\* double sum = 0.0; for (i = 0; i <= hi; i++) sum += a[i];
RECURSIVE FloatSum(_, _)
FloatSum(a, hi) == IF hi < 0 THEN Zero ELSE Round(Add(FloatSum(a, hi - 1), a[hi]))

\* The array a after the clamping loop of check_boundary_freqs.
Clamped(a) ==
    [i \in Alleles |->
       IF Less(a[i], POMO_MIN_BOUNDARY_FREQ) THEN POMO_MIN_BOUNDARY_FREQ
       ELSE IF Less(POMO_MAX_BOUNDARY_FREQ, a[i]) THEN POMO_MAX_BOUNDARY_FREQ
       ELSE a[i]]

\* normalize_boundary_freqs is entered with an array of allele counts that
\* are not all 0.
InitBfs ==
    /\ aln \in [virtual_pop_size : {2}, sites : {<<3, 1>>}]
    /\ matrix_exp_technique = "MET_EIGEN_DECOMPOSITION"
    /\ pc = "normalize_boundary_freqs"
    /\ last = "estimateEmpiricalBoundaryStateFreqs"
    /\ N = aln.virtual_pop_size
    /\ mutation_model = [is_reversible |-> TRUE, param |-> Zero]
    /\ is_reversible = TRUE
    /\ freq_boundary_states = <<>>
    /\ theta = Zero
    /\ fixed_theta = FALSE
    /\ fixed_theta_emp = FALSE
    /\ fixed_theta_usr = FALSE
    /\ mutation_rate_matrix = <<>>
    /\ mutation_rate_matrix_sym = <<>>
    /\ mutation_rate_matrix_asy = <<>>
    /\ state_freq = <<>>
    /\ rate_matrix = <<>>
    /\ eigen = [kind |-> "none"]
    /\ n_scaled = 0
    /\ ret = "void"
    /\ variables = <<>>
    /\ lower_bound = <<>>
    /\ upper_bound = <<>>
    /\ bound_check = <<>>
    /\ partial_lh = [kind |-> "cleared"]
    /\ cur_score = Zero
    /\ checkpoint = <<>>
    /\ \E counts \in [Alleles -> BfsCounts] :
         /\ \E i \in Alleles : counts[i] > 0
         /\ bfs = [i \in Alleles |-> Int2D(counts[i])]
    /\ depth = 0

\* What the normalisation leaves alone.
model == <<aln, matrix_exp_technique, N, mutation_model, is_reversible,
           freq_boundary_states, theta, fixed_theta, fixed_theta_emp,
           fixed_theta_usr, mutation_rate_matrix, mutation_rate_matrix_sym,
           mutation_rate_matrix_asy, state_freq, rate_matrix, eigen, n_scaled,
           ret, optimiser, tree, checkpoint>>

\* normalize_boundary_freqs(bfs) up to its call of check_boundary_freqs.
normalize_boundary_freqs ==
    /\ pc = "normalize_boundary_freqs"
    /\ depth < MaxDepth
    /\ \E sum \in {FloatSum(bfs, n_alleles - 1)} :
         bfs' = [i \in Alleles |-> Round(Div(bfs[i], sum))]
    /\ depth' = depth + 1
    /\ pc' = "check_boundary_freqs"
    /\ last' = "normalize_boundary_freqs"
    /\ UNCHANGED model

\* check_boundary_freqs that returns after clamping.
check_boundary_freqs_ClampOnce ==
    /\ pc = "check_boundary_freqs"
    /\ depth < MaxDepth
    /\ bfs' = Clamped(bfs)
    /\ depth' = depth + 1
    /\ pc' = "returned"
    /\ last' = "check_boundary_freqs"
    /\ UNCHANGED model

\* check_boundary_freqs(bfs): clamps, then calls normalize_boundary_freqs
\* again if an entry was changed and returns (through all enclosing calls)
\* if none was.
check_boundary_freqs ==
    /\ pc = "check_boundary_freqs"
    /\ depth < MaxDepth
    /\ bfs' = Clamped(bfs)
    /\ depth' = depth + 1
    /\ pc' = IF bfs' # bfs THEN "normalize_boundary_freqs" ELSE "returned"
    /\ last' = "check_boundary_freqs"
    /\ UNCHANGED model

NextBfs == normalize_boundary_freqs \/ check_boundary_freqs

SpecBfs == InitBfs /\ [][NextBfs]_vars

\* Every entry of bfs lies in the clamping band.
InBand ==
    \A i \in Alleles :
      /\ ~Less(bfs[i], POMO_MIN_BOUNDARY_FREQ)
      /\ ~Less(POMO_MAX_BOUNDARY_FREQ, bfs[i])

\* The sum of the entries of bfs, without rounding.
SumBfs == SumRange(bfs, 0, n_alleles - 1)

\* The sum of bfs is within n_alleles * 2^-MantissaBits of 1.
NearOne ==
    LET diff == Sub(SumBfs, One)
    IN  Abs(diff[1]) * Pow2(MantissaBits) <= n_alleles * diff[2]

POMO_MIN_THETA == <<1, 100000>>

POMO_MAX_THETA == <<1, 10>>

\* The bounds mutation_model->setBounds gives the adapter's parameter.
MIN_RATE == <<1, 10000>>

MAX_RATE == <<100, 1>>

\* The log-likelihoods phylo_tree->computeLikelihood() may come up with.
LogLikelihoods == { <<-7, 2>> }

\* What the tree computes transition probabilities from: the eigen arrays,
\* or the rate matrix itself under scaling-and-squaring.
LikelihoodSource(e, rm, sf) ==
    IF is_reversible \/ matrix_exp_technique = "MET_EIGEN_DECOMPOSITION"
    THEN e
    ELSE [kind |-> "scaling_squaring", matrix |-> rm, freq |-> sf]

\* The partial likelihoods after phylo_tree->clearAllPartialLH().
clearAllPartialLH == [kind |-> "cleared"]

\* The partial likelihoods after phylo_tree->computeLikelihood(): cached
\* ones are kept, cleared ones are computed from src.
computeLikelihood(partials, src) == IF partials.kind = "cleared" THEN src ELSE partials

\* The optimiser fills its array with a trial point.
Optimiser ==
    /\ pc = "ready"
    /\ \E x \in TrialPoints : variables' = x
    /\ last' = "Optimiser"
    /\ ret' = "void"
    /\ UNCHANGED <<aln, matrix_exp_technique, pc, N, mutation_model, is_reversible,
                   freq_boundary_states, theta, fixed_theta, fixed_theta_emp,
                   fixed_theta_usr, mutation_rate_matrix, mutation_rate_matrix_sym,
                   mutation_rate_matrix_asy, state_freq, rate_matrix, eigen, n_scaled,
                   lower_bound, upper_bound, bound_check, tree, checkpoint, bfs, depth>>

\* setVariables that puts theta one entry further on.
setVariables_PastEnd ==
    /\ pc = "ready"
    /\ \E adapted \in {WriteAt(variables, mutation_model_getNDim, mutation_model.param)} :
         variables' = IF ~fixed_theta THEN WriteAt(adapted, getNDim + 1, theta) ELSE adapted
    /\ last' = "setVariables"
    /\ ret' = "void"
    /\ UNCHANGED <<aln, matrix_exp_technique, pc, N, mutation_model, is_reversible,
                   freq_boundary_states, theta, fixed_theta, fixed_theta_emp,
                   fixed_theta_usr, mutation_rate_matrix, mutation_rate_matrix_sym,
                   mutation_rate_matrix_asy, state_freq, rate_matrix, eigen, n_scaled,
                   lower_bound, upper_bound, bound_check, tree, checkpoint, bfs, depth>>

\* setVariables(variables): the adapter writes its parameter, then theta
\* goes to entry getNDim() unless it is fixed.
setVariables ==
    /\ pc = "ready"
    /\ \E adapted \in {WriteAt(variables, mutation_model_getNDim, mutation_model.param)} :
         variables' = IF ~fixed_theta THEN WriteAt(adapted, getNDim, theta) ELSE adapted
    /\ last' = "setVariables"
    /\ ret' = "void"
    /\ UNCHANGED <<aln, matrix_exp_technique, pc, N, mutation_model, is_reversible,
                   freq_boundary_states, theta, fixed_theta, fixed_theta_emp,
                   fixed_theta_usr, mutation_rate_matrix, mutation_rate_matrix_sym,
                   mutation_rate_matrix_asy, state_freq, rate_matrix, eigen, n_scaled,
                   lower_bound, upper_bound, bound_check, tree, checkpoint, bfs, depth>>

\* setBounds(lower_bound, upper_bound, bound_check): the adapter bounds its
\* parameter, then entry getNDim() gets the bounds of theta unless theta is
\* fixed.
setBounds ==
    /\ pc = "ready"
    /\ \E lb \in {WriteAt(lower_bound, mutation_model_getNDim, MIN_RATE)},
          ub \in {WriteAt(upper_bound, mutation_model_getNDim, MAX_RATE)},
          bc \in {WriteAt(bound_check, mutation_model_getNDim, FALSE)} :
         /\ lower_bound' = IF ~fixed_theta THEN WriteAt(lb, getNDim, POMO_MIN_THETA) ELSE lb
         /\ upper_bound' = IF ~fixed_theta THEN WriteAt(ub, getNDim, POMO_MAX_THETA) ELSE ub
         /\ bound_check' = IF ~fixed_theta THEN WriteAt(bc, getNDim, FALSE) ELSE bc
    /\ last' = "setBounds"
    /\ ret' = "void"
    /\ UNCHANGED <<aln, matrix_exp_technique, pc, N, mutation_model, is_reversible,
                   freq_boundary_states, theta, fixed_theta, fixed_theta_emp,
                   fixed_theta_usr, mutation_rate_matrix, mutation_rate_matrix_sym,
                   mutation_rate_matrix_asy, state_freq, rate_matrix, eigen, n_scaled,
                   variables, tree, checkpoint, bfs, depth>>

\* targetFunk that leaves the partial likelihoods as they are.
targetFunk_NoClear(x) ==
    /\ pc = "ready"
    /\ mutation_model' = [mutation_model EXCEPT !.param = x[1]]
    /\ theta' = IF ~fixed_theta THEN ReadAt(x, getNDim, Unread) ELSE theta
    /\ \E nm \in {normalizeMutationRates(N, getQMatrix(mutation_model', freq_boundary_states),
                                        freq_boundary_states, is_reversible,
                                        mutation_rate_matrix_asy, theta')} :
         /\ mutation_rate_matrix' = nm.m
         /\ mutation_rate_matrix_sym' = nm.r
         /\ mutation_rate_matrix_asy' = nm.f
    /\ state_freq' = computeStateFreq(N, freq_boundary_states,
                                      mutation_rate_matrix_sym', mutation_rate_matrix_asy')
    /\ rate_matrix' = BuildRateMatrix(N, mutation_rate_matrix', freq_boundary_states, state_freq')
    /\ n_scaled' = 0
    /\ \E d \in {Decomposed(is_reversible, rate_matrix', state_freq')} :
         /\ eigen' = d.eigen
         /\ pc' = d.pc
    /\ IF pc' = "error"
       THEN ret' = "void" /\ UNCHANGED tree
       ELSE /\ partial_lh' = computeLikelihood(partial_lh,
                                               LikelihoodSource(eigen', rate_matrix', state_freq'))
            /\ \E score \in LogLikelihoods :
                 /\ cur_score' = score
                 /\ ret' = Neg(score)
    /\ last' = "targetFunk"
    /\ UNCHANGED <<aln, matrix_exp_technique, N, is_reversible, freq_boundary_states,
                   fixed_theta, fixed_theta_emp, fixed_theta_usr, optimiser, checkpoint,
                   bfs, depth>>

\* targetFunk(x): getVariables(x) applies x, calibrates the rates and
\* rebuilds state_freq and rate_matrix (its return value is dropped);
\* decomposeRateMatrix() rebuilds them once more from the same rates and
\* decomposes; the partial likelihoods are cleared and the negated
\* log-likelihood is returned.
targetFunk(x) ==
    /\ pc = "ready"
    /\ mutation_model' = [mutation_model EXCEPT !.param = x[1]]
    /\ theta' = IF ~fixed_theta THEN ReadAt(x, getNDim, Unread) ELSE theta
    /\ \E nm \in {normalizeMutationRates(N, getQMatrix(mutation_model', freq_boundary_states),
                                        freq_boundary_states, is_reversible,
                                        mutation_rate_matrix_asy, theta')} :
         /\ mutation_rate_matrix' = nm.m
         /\ mutation_rate_matrix_sym' = nm.r
         /\ mutation_rate_matrix_asy' = nm.f
    /\ state_freq' = computeStateFreq(N, freq_boundary_states,
                                      mutation_rate_matrix_sym', mutation_rate_matrix_asy')
    /\ rate_matrix' = BuildRateMatrix(N, mutation_rate_matrix', freq_boundary_states, state_freq')
    /\ n_scaled' = 0
    /\ \E d \in {Decomposed(is_reversible, rate_matrix', state_freq')} :
         /\ eigen' = d.eigen
         /\ pc' = d.pc
    /\ IF pc' = "error"
       THEN ret' = "void" /\ UNCHANGED tree
       ELSE /\ partial_lh' = computeLikelihood(clearAllPartialLH,
                                               LikelihoodSource(eigen', rate_matrix', state_freq'))
            /\ \E score \in LogLikelihoods :
                 /\ cur_score' = score
                 /\ ret' = Neg(score)
    /\ last' = "targetFunk"
    /\ UNCHANGED <<aln, matrix_exp_technique, N, is_reversible, freq_boundary_states,
                   fixed_theta, fixed_theta_emp, fixed_theta_usr, optimiser, checkpoint,
                   bfs, depth>>

\* A run with N = 2 on an alignment with polymorphic sites, under a
\* technique that a non-reversible model can run with.
InitOpt ==
    /\ Init
    /\ aln = [virtual_pop_size |-> 2, sites |-> <<3, 1>>]
    /\ matrix_exp_technique \in {"MET_EIGEN_DECOMPOSITION", "MET_SCALING_SQUARING"}

NextOpt ==
    \/ \E model_rev \in BOOLEAN, pomo_theta \in PomoThetas :
         init(model_rev, "FREQ_USER_DEFINED", pomo_theta)
    \/ Optimiser
    \/ setVariables
    \/ setBounds
    \/ /\ DOMAIN variables = 1 .. getNDim
       /\ getVariables(variables, BeyondValues)
    \/ /\ DOMAIN variables = 1 .. getNDim
       /\ targetFunk(variables)

SpecOpt == InitOpt /\ [][NextOpt]_vars

\* A run like those of SpecOpt under eigen-decomposition.
InitFixed ==
    /\ InitOpt
    /\ matrix_exp_technique = "MET_EIGEN_DECOMPOSITION"

\* Every call that might touch theta, on models of any directive.
NextFixed ==
    \/ \E model_rev \in BOOLEAN, pomo_theta \in PomoThetas :
         init(model_rev, "FREQ_USER_DEFINED", pomo_theta)
    \/ Optimiser
    \/ setVariables
    \/ setBounds
    \/ /\ DOMAIN variables = 1 .. getNDim
       /\ getVariables(variables, BeyondValues)
    \/ /\ DOMAIN variables = 1 .. getNDim
       /\ targetFunk(variables)
    \/ \E scale \in Scales : scaleMutationRatesAndUpdateRateMatrix(scale)
    \/ decomposeRateMatrix

SpecFixed == InitFixed /\ [][NextFixed]_vars

\* ------------------------------------------------------------------------
\* Checkpoints.
\* ------------------------------------------------------------------------
\* saveCheckpoint(): the adapter's rates and state_freq go into the
\* "ModelPoMo" structure.
saveCheckpoint ==
    /\ pc = "ready"
    /\ checkpoint' = [rates |-> mutation_model.param, state_freq |-> freq_boundary_states]
    /\ last' = "saveCheckpoint"
    /\ ret' = "void"
    /\ UNCHANGED <<aln, matrix_exp_technique, pc, N, mutation_model, is_reversible,
                   freq_boundary_states, theta, fixed_theta, fixed_theta_emp,
                   fixed_theta_usr, mutation_rate_matrix, mutation_rate_matrix_sym,
                   mutation_rate_matrix_asy, state_freq, rate_matrix, eigen, n_scaled,
                   optimiser, tree, bfs, depth>>

\* restoreCheckpoint(): the adapter's rates and state_freq (which
\* freq_boundary_states aliases) are read back, then decomposeRateMatrix
\* rebuilds state_freq and rate_matrix from mutation_rate_matrix and its
\* two parts as they stand, and the partial likelihoods are cleared.
\* ModelMarkov::restoreCheckpoint() restores members of the base class and
\* calls setRates(), which does nothing here.
restoreCheckpoint ==
    /\ pc = "ready"
    /\ checkpoint # <<>>
    /\ mutation_model' = [mutation_model EXCEPT !.param = checkpoint.rates]
    /\ freq_boundary_states' = checkpoint.state_freq
    /\ state_freq' = computeStateFreq(N, freq_boundary_states',
                                      mutation_rate_matrix_sym, mutation_rate_matrix_asy)
    /\ rate_matrix' = BuildRateMatrix(N, mutation_rate_matrix, freq_boundary_states',
                                      state_freq')
    /\ \E d \in {Decomposed(is_reversible, rate_matrix', state_freq')} :
         /\ eigen' = d.eigen
         /\ pc' = d.pc
    /\ partial_lh' = clearAllPartialLH
    /\ last' = "restoreCheckpoint"
    /\ ret' = "void"
    /\ UNCHANGED <<aln, matrix_exp_technique, N, is_reversible, theta, fixed_theta,
                   fixed_theta_emp, fixed_theta_usr, mutation_rate_matrix,
                   mutation_rate_matrix_sym, mutation_rate_matrix_asy, n_scaled,
                   optimiser, cur_score, checkpoint, bfs, depth>>

\* A run on an alignment with polymorphic sites under eigen-decomposition.
InitCkp ==
    /\ Init
    /\ aln.sites = <<3, 1>>
    /\ matrix_exp_technique = "MET_EIGEN_DECOMPOSITION"

NextCkp ==
    \/ \E model_rev \in BOOLEAN, freq_type \in FreqTypes, pomo_theta \in PomoThetas :
         init(model_rev, freq_type, pomo_theta)
    \/ \E x \in TrialPoints : getVariables(x, BeyondValues)
    \/ saveCheckpoint
    \/ restoreCheckpoint

SpecCkp == InitCkp /\ [][NextCkp]_vars

\* C14: after restoreCheckpoint returns, the calibrated rates m, r, f are
\* those derived from the restored adapter rates and boundary frequencies,
\* and the rate matrix and state frequencies in use are built from them.
C14_RestoredModelIsRebuilt ==
    (pc = "ready" /\ last = "restoreCheckpoint") => RebuiltFromParameters

\* ------------------------------------------------------------------------
\* The parameter interface: properties.
\* ------------------------------------------------------------------------
\* The index just after the adapter's parameters.
ThetaIndex == mutation_model_getNDim + 1

\* C15: getNDim is the adapter's parameter count, plus 1 exactly when theta
\* is not fixed; setVariables writes theta to the entry just after the
\* adapter's parameters, getVariables reads theta from that entry, setBounds
\* bounds that entry, and with theta fixed none of them touches it; so
\* getVariables right after setVariables on the same array leaves theta and
\* the adapter's parameter as they were.
C15_ThetaIndex ==
    [][ pc = "ready" =>
          /\ getNDim = mutation_model_getNDim + (IF fixed_theta THEN 0 ELSE 1)
          /\ last' = "setVariables" =>
                /\ DOMAIN variables' = 1 .. getNDim
                /\ variables'[mutation_model_getNDim] = mutation_model.param
                /\ ~fixed_theta => variables'[ThetaIndex] = theta
          /\ last' = "getVariables" =>
                /\ mutation_model'.param = variables[mutation_model_getNDim]
                /\ theta' = IF fixed_theta THEN theta ELSE variables[ThetaIndex]
                /\ variables' = variables
          /\ last' = "setBounds" =>
                /\ DOMAIN lower_bound' = 1 .. getNDim
                /\ DOMAIN upper_bound' = 1 .. getNDim
                /\ DOMAIN bound_check' = 1 .. getNDim
                /\ ~fixed_theta =>
                      /\ lower_bound'[ThetaIndex] = POMO_MIN_THETA
                      /\ upper_bound'[ThetaIndex] = POMO_MAX_THETA
                      /\ bound_check'[ThetaIndex] = FALSE
          /\ (last = "setVariables" /\ last' = "getVariables") =>
                (theta' = theta /\ mutation_model' = mutation_model) ]_vars

\* With theta free, getVariables has read back the array setVariables
\* wrote (theta is still the estimate from the data, which the optimiser
\* never proposes), and setBounds has bounded both entries.
C15_Witness ==
    /\ pc = "ready"
    /\ last = "getVariables"
    /\ ~fixed_theta
    /\ theta = estimateEmpiricalWattersonTheta(aln)
    /\ theta \notin ThetaVars
    /\ variables = <<mutation_model.param, theta>>
    /\ lower_bound = <<MIN_RATE, POMO_MIN_THETA>>
    /\ upper_bound = <<MAX_RATE, POMO_MAX_THETA>>

\* C16: when targetFunk has returned, the array was applied, the rates were
\* calibrated and state_freq and rate_matrix rebuilt from the applied
\* parameters, the eigen arrays (when the run uses them) are those of that
\* rate matrix, the partial likelihoods were cleared and then computed from
\* that decomposition, and the value returned is minus the log-likelihood
\* the tree computed.
C16_TargetFunkOrder ==
    (pc = "ready" /\ last = "targetFunk") =>
      /\ mutation_model.param = variables[mutation_model_getNDim]
      /\ ~fixed_theta => theta = variables[ThetaIndex]
      /\ RebuiltFromParameters
      /\ UsesEigen => EigenIsCurrent
      /\ partial_lh = LikelihoodSource(eigen, rate_matrix, state_freq)
      /\ ret = Neg(cur_score)

\* targetFunk has applied an adapter parameter and a theta that differ from
\* those of init, on a reversible model: the likelihood was computed from
\* the eigen arrays of the new rate matrix.
C16_Witness ==
    /\ pc = "ready"
    /\ last = "targetFunk"
    /\ is_reversible
    /\ mutation_model.param = Int2D(2)
    /\ theta = <<1, 10>>
    /\ theta # estimateEmpiricalWattersonTheta(aln)
    /\ ~fixed_theta
    /\ partial_lh = eigen
    /\ eigen.matrix = rate_matrix
    /\ ret = <<7, 2>>

\* The directives that give theta as a number.
UserThetas == PomoThetas \ { <<>>, <<"E", "M", "P">> }

\* C17: fixed_theta holds iff exactly one of fixed_theta_emp and
\* fixed_theta_usr does (and without it neither does); a theta fixed by
\* "EMP" is the empirical Watterson estimate and one fixed by the user is
\* the number the directive spells; and no call changes a fixed theta.
C17_FixedThetaStays ==
    /\ [](pc = "ready" =>
            /\ fixed_theta <=> (fixed_theta_emp # fixed_theta_usr)
            /\ ~(fixed_theta_emp /\ fixed_theta_usr)
            /\ fixed_theta_emp => theta = estimateEmpiricalWattersonTheta(aln)
            /\ fixed_theta_usr => theta \in {convert_double(d) : d \in UserThetas})
    /\ [][ (pc = "ready" /\ fixed_theta) => theta' = theta ]_vars

\* With theta fixed by the user to 0.1, targetFunk has run on the
\* one-entry array <<2>> after a scaling call: theta is still 1/10.
C17_Witness ==
    /\ pc = "ready"
    /\ last = "targetFunk"
    /\ fixed_theta_usr
    /\ ~fixed_theta_emp
    /\ variables = <<Int2D(2)>>
    /\ lower_bound = <<MIN_RATE>>
    /\ theta = <<1, 10>>

\* ------------------------------------------------------------------------
\* The value getVariables returns.
\* ------------------------------------------------------------------------
\* C18: getVariables returns true exactly when applying the array changed
\* the model, that is when the adapter's parameter or (theta not fixed) theta
\* differs from what was stored before the call.
C18_ReturnsWhetherChanged ==
    [][ (pc = "ready" /\ last' = "getVariables") =>
          ret' = (mutation_model' # mutation_model \/ theta' # theta) ]_vars

====
